---- MODULE Spec2Model ----
(***************************************************************************)
(* State-machine model of packages/core/core/src/RequestTracker.js:        *)
(* the RequestGraph (nodes, typed edges, six index sets), its invalidation *)
(* algebra and filesystem-event responder, and the RequestTracker runner.  *)
(*                                                                         *)
(* Strings are sequences of tokens.  A path such as /a/b/i.js is           *)
(* <<"/","a","/","b","/","i",".js">>: a separator token, name tokens and   *)
(* an extension token.  String concatenation is \o, so the id prefixes of  *)
(* the node constructors are modelled as they are written in the source.   *)
(***************************************************************************)
EXTENDS Integers, Sequences, FiniteSets, TLC

VARIABLES
  graph,          \* RequestTracker.graph: the RequestGraph
  runs,           \* the runRequest invocations suspended in their body
  declared,       \* per request: what it declared since it last started
  last,           \* the last operation, its arguments and what it returned
  options         \* RequestTracker.options: options.env and the other options

vars == <<graph, runs, declared, last, options>>

(***************************************************************************)
(* Strings and the path helpers the source imports.                        *)
(***************************************************************************)
SEP == "/"

ExtTokens == {".js", ".ts", ".json"}

RECURSIVE LastIndexOf(_, _)
LastIndexOf(s, tok) ==
  IF Len(s) = 0 THEN 0
  ELSE IF s[Len(s)] = tok THEN Len(s)
  ELSE LastIndexOf(SubSeq(s, 1, Len(s) - 1), tok)

\* path.dirname
dirname(p) ==
  LET i == LastIndexOf(p, SEP) IN
  IF i = 0 THEN <<".">>
  ELSE IF i = 1 THEN <<SEP>>
  ELSE SubSeq(p, 1, i - 1)

\* path.basename
basename(p) == SubSeq(p, LastIndexOf(p, SEP) + 1, Len(p))

\* path.extname: the extension of the last portion, '' when it has none or
\* when the portion is nothing but the extension
extname(p) ==
  LET b == basename(p) IN
  IF Len(b) >= 2 /\ b[Len(b)] \in ExtTokens THEN <<b[Len(b)]>> ELSE <<>>

\* String.prototype.slice(0, end): a negative end counts from the back,
\* and -0 is 0
slice0(s, end) ==
  LET e == IF end < 0 THEN (IF Len(s) + end < 0 THEN 0 ELSE Len(s) + end)
           ELSE (IF end > Len(s) THEN Len(s) ELSE end)
  IN SubSeq(s, 1, e)

\* String.prototype.split('/')
RECURSIVE split(_)
split(s) ==
  LET i == LastIndexOf(s, SEP) IN
  IF i = 0 THEN <<s>>
  ELSE Append(split(SubSeq(s, 1, i - 1)), SubSeq(s, i + 1, Len(s)))

\* Array.prototype.reverse
reverse(a) == [i \in 1..Len(a) |-> a[Len(a) + 1 - i]]

\* isDirectoryInside(child, parent) of @parcel/utils: the path from parent
\* to child neither climbs up nor is absolute
isDirectoryInside(child, parent) ==
  /\ Len(parent) <= Len(child)
  /\ SubSeq(child, 1, Len(parent)) = parent
  /\ \/ Len(parent) = Len(child)
     \/ parent = <<SEP>>
     \/ child[Len(parent) + 1] = SEP

\* isGlobMatch(filePath, glob) of @parcel/utils, for patterns whose only
\* wildcard is *, which matches one name within a path segment
isGlobMatch(filePath, glob) ==
  /\ Len(filePath) = Len(glob)
  /\ \A i \in 1..Len(glob) :
       \/ glob[i] = filePath[i]
       \/ glob[i] = "*" /\ filePath[i] # SEP /\ filePath[i] \notin ExtTokens

(***************************************************************************)
(* Nodes.  Every node is [id, type, value]; value is one record shape for  *)
(* all node types and a constructor fills the fields of its type.          *)
(***************************************************************************)
Undefined == "<undefined>"

NoValue ==
  [filePath |-> <<>>, glob |-> <<>>, fileName |-> <<>>, extensions |-> {},
   key |-> <<>>, value |-> Undefined, hash |-> Undefined, result |-> Undefined]

nodeFromFilePath(filePath) ==
  [id |-> filePath, type |-> "file",
   value |-> [NoValue EXCEPT !.filePath = filePath]]

nodeFromGlob(glob) ==
  [id |-> glob, type |-> "glob", value |-> [NoValue EXCEPT !.glob = glob]]

extensionlessFileNodeId(filePath) == <<"extensionless_file:">> \o filePath

nodeFromExtensionlessFilePath(filePath, extensions) ==
  [id |-> extensionlessFileNodeId(filePath), type |-> "extensionless_file",
   value |-> [NoValue EXCEPT !.filePath = filePath, !.extensions = extensions]]

nodeFromFileName(fileName) ==
  [id |-> <<"file_name:">> \o fileName, type |-> "file_name",
   value |-> [NoValue EXCEPT !.fileName = fileName]]

nodeFromRequest(request) ==
  [id |-> request.id, type |-> "request", value |-> NoValue]

nodeFromEnv(env, value) ==
  [id |-> <<"env:">> \o env, type |-> "env",
   value |-> [NoValue EXCEPT !.key = env, !.value = value]]

\* hashFromOption: the hash of an option's value
hashFromOption(value) ==
  CASE value = "true" -> "hash(true)"
    [] value = "false" -> "hash(false)"
    [] OTHER -> "hash(undefined)"

nodeFromOption(option, value) ==
  [id |-> <<"option:">> \o option, type |-> "option",
   value |-> [NoValue EXCEPT !.key = option, !.hash = hashFromOption(value)]]

(***************************************************************************)
(* Graph (the base class): nodes keyed by id, edges keyed by               *)
(* (from, to, type).                                                       *)
(***************************************************************************)
hasNode(g, id) == id \in DOMAIN g.nodes

getNode(g, id) == g.nodes[id]

hasEdge(g, from, to, type) == <<from, to, type>> \in g.edges

GraphAddNode(g, node) ==
  IF hasNode(g, node.id) THEN g
  ELSE [g EXCEPT !.nodes = (node.id :> node) @@ g.nodes]

addEdge(g, from, to, type) ==
  [g EXCEPT !.edges = g.edges \cup {<<from, to, type>>}]

GraphRemoveNode(g, node) ==
  [g EXCEPT
     !.nodes = [i \in DOMAIN g.nodes \ {node.id} |-> g.nodes[i]],
     !.edges = {e \in g.edges : e[1] # node.id /\ e[2] # node.id}]

\* ids of the nodes with an edge of `type` to node `id`
getNodesConnectedTo(g, id, type) ==
  {e[1] : e \in {x \in g.edges : x[2] = id /\ x[3] = type}}

\* ids of the nodes node `id` has an edge of `type` to
getNodesConnectedFrom(g, id, type) ==
  {e[2] : e \in {x \in g.edges : x[1] = id /\ x[3] = type}}

replaceNodesConnectedTo(g, id, toIds, type) ==
  [g EXCEPT !.edges =
     {e \in g.edges : ~(e[1] = id /\ e[3] = type)}
       \cup {<<id, t, type>> : t \in toIds}]

(***************************************************************************)
(* RequestGraph: the graph plus the six index sets.                        *)
(***************************************************************************)
EmptyGraph ==
  [nodes |-> [i \in {} |-> NoValue], edges |-> {},
   invalidNodeIds |-> {}, incompleteNodeIds |-> {}, globNodeIds |-> {},
   envNodeIds |-> {}, optionNodeIds |-> {}, unpredicatableNodeIds |-> <<>>]

\* A Set iterates in insertion order: unpredicatableNodeIds, whose loop can
\* fail half way, is the sequence of its ids in that order.
SetAdd(seq, x) ==
  IF \E i \in DOMAIN seq : seq[i] = x THEN seq ELSE Append(seq, x)

SetDelete(seq, x) == SelectSeq(seq, LAMBDA y : y # x)

addNode_NoGlobIndex(g, node) ==
  LET g1 == IF ~hasNode(g, node.id)
            THEN [g EXCEPT
                    !.envNodeIds =
                       IF node.type = "env" THEN @ \cup {node.id} ELSE @,
                    !.optionNodeIds =
                       IF node.type = "option" THEN @ \cup {node.id} ELSE @]
            ELSE g
  IN GraphAddNode(g1, node)

addNode(g, node) ==
  LET g1 == IF ~hasNode(g, node.id)
            THEN [g EXCEPT
                    !.globNodeIds =
                       IF node.type = "glob" THEN @ \cup {node.id} ELSE @,
                    !.envNodeIds =
                       IF node.type = "env" THEN @ \cup {node.id} ELSE @,
                    !.optionNodeIds =
                       IF node.type = "option" THEN @ \cup {node.id} ELSE @]
            ELSE g
  IN GraphAddNode(g1, node)

removeNode(g, node) ==
  LET g1 == [g EXCEPT
               !.invalidNodeIds = @ \ {node.id},
               !.incompleteNodeIds = @ \ {node.id},
               !.globNodeIds =
                  IF node.type = "glob" THEN @ \ {node.id} ELSE @,
               !.envNodeIds =
                  IF node.type = "env" THEN @ \ {node.id} ELSE @,
               !.optionNodeIds =
                  IF node.type = "option" THEN @ \ {node.id} ELSE @]
  IN GraphRemoveNode(g1, node)

\* Graph.removeById: the node of that id, removed through removeNode
removeById(g, id) == removeNode(g, getNode(g, id))

\* getRequestNode fails (nullthrows, invariant) unless id names a Request
getRequestNodeThrows(g, id) ==
  ~hasNode(g, id) \/ getNode(g, id).type # "request"

replaceSubrequests(g, requestId, subrequestIds) ==
  replaceNodesConnectedTo(g, requestId, subrequestIds, "subrequest")

\* the requests invalidateNode visits from `id`: id and, through the
\* subrequest in-edges, its parents, their parents, ...
RECURSIVE AncestorsFrom(_, _, _)
AncestorsFrom(g, frontier, seen) ==
  IF frontier = {} THEN seen
  ELSE LET new == UNION {getNodesConnectedTo(g, n, "subrequest") : n \in frontier}
       IN AncestorsFrom(g, new \ (seen \cup frontier), seen \cup frontier)

Ancestors(g, id) == AncestorsFrom(g, {id}, {})

\* invalidateNode as the code computes it: the id is added to invalidNodeIds,
\* then the method calls itself for every parent, one after the other.  It
\* keeps no visited set; MaxStack stands for the depth at which the engine
\* gives the recursion up with a RangeError, which leaves invalidNodeIds with
\* the ids added so far.  Yields the graph and whether that happened.
MaxStack == 4
RECURSIVE invalidateNodeAt(_, _, _)
RECURSIVE invalidateParentsAt(_, _, _)
invalidateParentsAt(r, parentNodes, depth) ==
  IF parentNodes = {} \/ r.overflow THEN r
  ELSE LET parentNode == CHOOSE x \in parentNodes : TRUE
       IN invalidateParentsAt(invalidateNodeAt(r.g, parentNode, depth),
                              parentNodes \ {parentNode}, depth)

invalidateNodeAt(g, id, depth) ==
  IF depth > MaxStack THEN [g |-> g, overflow |-> TRUE]
  ELSE IF ~hasNode(g, id) THEN [g |-> g, overflow |-> FALSE]
  ELSE LET g1 == [g EXCEPT !.invalidNodeIds = @ \cup {id}]
       IN invalidateParentsAt([g |-> g1, overflow |-> FALSE],
                              getNodesConnectedTo(g1, id, "subrequest"),
                              depth + 1)

invalidateNodeOverflows(g, id) == invalidateNodeAt(g, id, 1).overflow

\* invalidateNode that stops at the parents of the node
invalidateNode_ParentsOnly(g, id) ==
  IF hasNode(g, id)
  THEN [g EXCEPT !.invalidNodeIds =
          @ \cup {id} \cup getNodesConnectedTo(g, id, "subrequest")]
  ELSE g

\* invalidateNode that leaves the parents alone
invalidateNode_SelfOnly(g, id) ==
  IF hasNode(g, id) THEN [g EXCEPT !.invalidNodeIds = @ \cup {id}] ELSE g

invalidateNode(g, id) == invalidateNodeAt(g, id, 1).g

\* the loop over the connected nodes leaving at the first node it newly
\* invalidates
invalidateNodes_FirstNewOnly(g, ids) ==
  LET fresh == {id \in ids : id \notin g.invalidNodeIds}
  IN IF fresh = {} THEN g
     ELSE invalidateNode(g, CHOOSE x \in fresh : TRUE)

\* invalidateNode on each of `ids` (the for loops over connected nodes)
RECURSIVE invalidateNodes(_, _)
invalidateNodes(g, ids) ==
  IF ids = {} THEN g
  ELSE LET id == CHOOSE x \in ids : TRUE
       IN invalidateNodes(invalidateNode(g, id), ids \ {id})

\* the ids of unpredicatableNodeIds at which the loop of
\* invalidateUnpredictableNodes fails: nullthrows(getNode(nodeId)) and the
\* invariant on the node's type
UnpredictableFailures(g) ==
  {i \in DOMAIN g.unpredicatableNodeIds :
     \/ ~hasNode(g, g.unpredicatableNodeIds[i])
     \/ getNode(g, g.unpredicatableNodeIds[i]).type # "request"}

invalidateUnpredictableNodesThrows(g) == UnpredictableFailures(g) # {}

\* the nodes before the first failure are invalidated
invalidateUnpredictableNodes(g) ==
  LET ids == g.unpredicatableNodeIds
      n == IF UnpredictableFailures(g) = {} THEN Len(ids)
           ELSE (CHOOSE i \in UnpredictableFailures(g) :
                   \A j \in UnpredictableFailures(g) : i <= j) - 1
  IN invalidateNodes(g, {ids[i] : i \in 1..n})

\* invalidateEnvNodes(env): the requests with an invalidated_by_update edge
\* to an Env node whose captured value is not env[key]
invalidateEnvNodes(g, env) ==
  LET changed == {id \in g.envNodeIds :
                    env[getNode(g, id).value.key] # getNode(g, id).value.value}
  IN invalidateNodes(g,
       UNION {getNodesConnectedTo(g, id, "invalidated_by_update") :
                id \in changed})

\* invalidateOptionNodes(options): the same with the hash of the option
invalidateOptionNodes(g, opts) ==
  LET changed == {id \in g.optionNodeIds :
                    hashFromOption(opts[getNode(g, id).value.key])
                      # getNode(g, id).value.hash}
  IN invalidateNodes(g,
       UNION {getNodesConnectedTo(g, id, "invalidated_by_update") :
                id \in changed})

\* invalidateOnFileUpdate that replaces the invalidated_by_update edges of
\* the request instead of adding to them
invalidateOnFileUpdate_Replaces(g, requestId, filePath) ==
  LET fileNode == nodeFromFilePath(filePath)
      g1 == IF ~hasNode(g, fileNode.id) THEN addNode(g, fileNode) ELSE g
  IN replaceNodesConnectedTo(g1, requestId, {fileNode.id},
                             "invalidated_by_update")

invalidateOnFileUpdate(g, requestId, filePath) ==
  LET fileNode == nodeFromFilePath(filePath)
      g1 == IF ~hasNode(g, fileNode.id) THEN addNode(g, fileNode) ELSE g
  IN IF ~hasEdge(g1, requestId, fileNode.id, "invalidated_by_update")
     THEN addEdge(g1, requestId, fileNode.id, "invalidated_by_update")
     ELSE g1

invalidateOnFileDelete(g, requestId, filePath) ==
  LET fileNode == nodeFromFilePath(filePath)
      g1 == IF ~hasNode(g, fileNode.id) THEN addNode(g, fileNode) ELSE g
  IN IF ~hasEdge(g1, requestId, fileNode.id, "invalidated_by_delete")
     THEN addEdge(g1, requestId, fileNode.id, "invalidated_by_delete")
     ELSE g1

\* A FileCreateInvalidation: `fields` names the properties that are set
\* An input with no field; a filePath that is absent reads as undefined,
\* which the node id of nodeFromExtensionlessFilePath spells out.
NoInput ==
  [fields |-> {}, glob |-> <<>>, filePath |-> <<"undefined">>,
   extensions |-> {},
   fileName |-> <<>>, aboveFilePath |-> <<>>]

GlobInput(glob) == [NoInput EXCEPT !.fields = {"glob"}, !.glob = glob]

ExtensionsInput(filePath, extensions) ==
  [NoInput EXCEPT !.fields = {"filePath", "extensions"},
                  !.filePath = filePath, !.extensions = extensions]

FileNameInput(fileName, aboveFilePath) ==
  [NoInput EXCEPT !.fields = {"fileName", "aboveFilePath"},
                  !.fileName = fileName, !.aboveFilePath = aboveFilePath]

\* the loop over fileName.split('/').reverse(): a FileName node per part and
\* a dirname edge from each part to the next one; yields the graph and the
\* id of the last part
RECURSIVE addFileNameParts(_, _, _, _)
addFileNameParts(g, parts, i, lastId) ==
  IF i > Len(parts) THEN [g |-> g, lastId |-> lastId]
  ELSE LET fileNameNode == nodeFromFileName(parts[i])
           g1 == IF ~hasNode(g, fileNameNode.id)
                 THEN addNode(g, fileNameNode) ELSE g
           g2 == IF lastId # <<>> /\ ~hasEdge(g1, lastId, fileNameNode.id, "dirname")
                 THEN addEdge(g1, lastId, fileNameNode.id, "dirname")
                 ELSE g1
       IN addFileNameParts(g2, parts, i + 1, fileNameNode.id)

invalidateOnFileCreateThrows(g, requestId, input) ==
  \/ getRequestNodeThrows(g, requestId)
  \/ /\ "glob" \notin input.fields
     /\ "extensions" \notin input.fields
     /\ ~({"fileName", "aboveFilePath"} \subseteq input.fields)
  \/ /\ "glob" \notin input.fields
     /\ "extensions" \in input.fields
     /\ hasNode(g, extensionlessFileNodeId(input.filePath))
     /\ getNode(g, extensionlessFileNodeId(input.filePath)).type
          # "extensionless_file"

\* invalidateOnFileCreate that overwrites the extensions of an existing node
invalidateOnFileCreate_KeepsNewOnly(g, requestId, input) ==
  LET r ==
        IF "glob" \in input.fields
        THEN [g |-> g, node |-> nodeFromGlob(input.glob)]
        ELSE IF "extensions" \in input.fields
        THEN LET n == nodeFromExtensionlessFilePath(input.filePath,
                                                    input.extensions)
             IN IF hasNode(g, n.id)
                THEN LET old == getNode(g, n.id)
                         new == [old EXCEPT !.value.extensions =
                                   input.extensions]
                     IN [g |-> [g EXCEPT !.nodes[n.id] = new], node |-> new]
                ELSE [g |-> g, node |-> n]
        ELSE LET chain == addFileNameParts(g,
                            reverse(split(input.fileName)), 1, <<>>)
                 n == nodeFromFilePath(input.aboveFilePath)
                 g1 == IF ~hasNode(chain.g, n.id)
                       THEN addNode(chain.g, n) ELSE chain.g
                 g2 == IF chain.lastId # <<>>
                          /\ ~hasEdge(g1, chain.lastId, n.id,
                                      "invalidated_by_create_above")
                       THEN addEdge(g1, n.id, chain.lastId,
                                    "invalidated_by_create_above")
                       ELSE g1
             IN [g |-> g2, node |-> n]
      g3 == IF ~hasNode(r.g, r.node.id) THEN addNode(r.g, r.node) ELSE r.g
  IN IF ~hasEdge(g3, requestId, r.node.id, "invalidated_by_create")
     THEN addEdge(g3, requestId, r.node.id, "invalidated_by_create")
     ELSE g3

invalidateOnFileCreate(g, requestId, input) ==
  LET r ==
        IF "glob" \in input.fields
        THEN [g |-> g, node |-> nodeFromGlob(input.glob)]
        ELSE IF "extensions" \in input.fields
        THEN LET n == nodeFromExtensionlessFilePath(input.filePath,
                                                    input.extensions)
             IN IF hasNode(g, n.id)
                THEN LET old == getNode(g, n.id)
                         new == [old EXCEPT !.value.extensions =
                                   old.value.extensions \cup input.extensions]
                     IN [g |-> [g EXCEPT !.nodes[n.id] = new], node |-> new]
                ELSE [g |-> g, node |-> n]
        ELSE LET chain == addFileNameParts(g,
                            reverse(split(input.fileName)), 1, <<>>)
                 n == nodeFromFilePath(input.aboveFilePath)
                 g1 == IF ~hasNode(chain.g, n.id)
                       THEN addNode(chain.g, n) ELSE chain.g
                 g2 == IF chain.lastId # <<>>
                          /\ ~hasEdge(g1, chain.lastId, n.id,
                                      "invalidated_by_create_above")
                       THEN addEdge(g1, n.id, chain.lastId,
                                    "invalidated_by_create_above")
                       ELSE g1
             IN [g |-> g2, node |-> n]
      g3 == IF ~hasNode(r.g, r.node.id) THEN addNode(r.g, r.node) ELSE r.g
  IN IF ~hasEdge(g3, requestId, r.node.id, "invalidated_by_create")
     THEN addEdge(g3, requestId, r.node.id, "invalidated_by_create")
     ELSE g3

invalidateOnStartup(g, requestId) ==
  [g EXCEPT !.unpredicatableNodeIds = SetAdd(@, requestId)]

invalidateOnEnvChange(g, requestId, env, value) ==
  LET envNode == nodeFromEnv(env, value)
      g1 == IF ~hasNode(g, envNode.id) THEN addNode(g, envNode) ELSE g
  IN IF ~hasEdge(g1, requestId, envNode.id, "invalidated_by_update")
     THEN addEdge(g1, requestId, envNode.id, "invalidated_by_update")
     ELSE g1

invalidateOnOptionChange(g, requestId, option, value) ==
  LET optionNode == nodeFromOption(option, value)
      g1 == IF ~hasNode(g, optionNode.id) THEN addNode(g, optionNode) ELSE g
  IN IF ~hasEdge(g1, requestId, optionNode.id, "invalidated_by_update")
     THEN addEdge(g1, requestId, optionNode.id, "invalidated_by_update")
     ELSE g1

\* clearInvalidations without the invalidated_by_delete edges
clearInvalidations_KeepsDelete(g, id) ==
  LET g0 == [g EXCEPT !.unpredicatableNodeIds = SetDelete(@, id)]
      g1 == replaceNodesConnectedTo(g0, id, {}, "invalidated_by_update")
  IN replaceNodesConnectedTo(g1, id, {}, "invalidated_by_create")

clearInvalidations(g, id) ==
  LET g0 == [g EXCEPT !.unpredicatableNodeIds = SetDelete(@, id)]
      g1 == replaceNodesConnectedTo(g0, id, {}, "invalidated_by_update")
      g2 == replaceNodesConnectedTo(g1, id, {}, "invalidated_by_delete")
  IN replaceNodesConnectedTo(g2, id, {}, "invalidated_by_create")

\* getInvalidations: the file and env invalidations behind the
\* invalidated_by_update edges of the request
getInvalidations(g, requestId) ==
  IF ~hasNode(g, requestId) THEN {}
  ELSE {[type |-> getNode(g, id).type,
         filePath |-> getNode(g, id).value.filePath,
         key |-> getNode(g, id).value.key] :
          id \in {n \in getNodesConnectedFrom(g, requestId,
                                              "invalidated_by_update") :
                    getNode(g, n).type \in {"file", "env"}}}

\* the walk from a FileName node up the directories of filePath
RECURSIVE invalidateFileNameNode(_, _, _)
invalidateFileNameNode(g, nodeId, filePath) ==
  LET dir == dirname(filePath)
      above == getNodesConnectedTo(g, nodeId, "invalidated_by_create_above")
      hit == {a \in above :
                isDirectoryInside(getNode(g, a).value.filePath, dir)}
      g1 == invalidateNodes(g,
              UNION {getNodesConnectedTo(g, a, "invalidated_by_create") :
                       a \in hit})
      \* 'file_name: ' + basename, with the blank the source writes
      parentId == <<"file_name:", " ">> \o basename(dir)
  IN IF /\ hasNode(g1, parentId)
        /\ hasEdge(g1, parentId, nodeId, "dirname")
        /\ dir # filePath   \* the walk of the model ends at the root
     THEN invalidateFileNameNode(g1, parentId, dir)
     ELSE g1

\* respondToUpdate following the invalidated_by_update edges that leave the
\* node instead of those that reach it
respondToUpdate_FromEdges(g, filePath) ==
  invalidateNodes(g, getNodesConnectedFrom(g, filePath, "invalidated_by_update"))

\* an event of type create or update at the id of a node of the graph
respondToUpdate(g, filePath) ==
  invalidateNodes(g, getNodesConnectedTo(g, filePath, "invalidated_by_update"))

\* every Glob node matches every created path
respondToCreate_EveryGlob(g, filePath) ==
  LET extension == extname(filePath)
      extensionlessFilePath == slice0(filePath, 0 - Len(extension))
      efId == extensionlessFileNodeId(extensionlessFilePath)
      g1 == IF /\ hasNode(g, efId)
               /\ getNode(g, efId).type = "extensionless_file"
               /\ \E e \in getNode(g, efId).value.extensions : e = extension
            THEN invalidateNodes(g,
                   getNodesConnectedTo(g, efId, "invalidated_by_create"))
            ELSE g
      fnId == <<"file_name:">> \o basename(filePath)
      g2 == IF hasNode(g1, fnId) /\ getNode(g1, fnId).type = "file_name"
            THEN invalidateFileNameNode(g1, fnId, filePath)
            ELSE g1
  IN invalidateNodes(g2,
       UNION {getNodesConnectedTo(g2, id, "invalidated_by_create") :
                id \in g2.globNodeIds})

\* an event of type create at a path that is no id of the graph
respondToCreate(g, filePath) ==
  LET extension == extname(filePath)
      extensionlessFilePath == slice0(filePath, 0 - Len(extension))
      efId == extensionlessFileNodeId(extensionlessFilePath)
      g1 == IF /\ hasNode(g, efId)
               /\ getNode(g, efId).type = "extensionless_file"
               /\ \E e \in getNode(g, efId).value.extensions : e = extension
            THEN invalidateNodes(g,
                   getNodesConnectedTo(g, efId, "invalidated_by_create"))
            ELSE g
      fnId == <<"file_name:">> \o basename(filePath)
      g2 == IF hasNode(g1, fnId) /\ getNode(g1, fnId).type = "file_name"
            THEN invalidateFileNameNode(g1, fnId, filePath)
            ELSE g1
      globs == {id \in g2.globNodeIds :
                  isGlobMatch(filePath, getNode(g2, id).value.glob)}
  IN invalidateNodes(g2,
       UNION {getNodesConnectedTo(g2, id, "invalidated_by_create") :
                id \in globs})

\* respondToDelete following the invalidated_by_update edges
respondToDelete_UpdateEdges(g, filePath) ==
  invalidateNodes(g, getNodesConnectedTo(g, filePath, "invalidated_by_update"))

\* respondToDelete that also removes the deleted file's node
respondToDelete_RemovesNode(g, filePath) ==
  removeNode(
    invalidateNodes(g, getNodesConnectedTo(g, filePath, "invalidated_by_delete")),
    getNode(g, filePath))

\* an event of type delete at the id of a node of the graph
respondToDelete(g, filePath) ==
  invalidateNodes(g, getNodesConnectedTo(g, filePath, "invalidated_by_delete"))

\* one event of respondToFSEvents
respondToFSEvent(g, event) ==
  LET filePath == event.path
      type == event.type
  IN IF hasNode(g, filePath) /\ type \in {"create", "update"}
     THEN respondToUpdate(g, filePath)
     ELSE IF type = "create"
     THEN respondToCreate(g, filePath)
     ELSE IF hasNode(g, filePath) /\ type = "delete"
     THEN respondToDelete(g, filePath)
     ELSE g

RECURSIVE respondToFSEventsFrom(_, _, _)
respondToFSEventsFrom(g, events, i) ==
  IF i > Len(events) THEN g
  ELSE respondToFSEventsFrom(respondToFSEvent(g, events[i]), events, i + 1)

\* RequestGraph.respondToFSEvents: the graph after the batch, and the value
\* the method returns
respondToFSEvents(g, events) ==
  LET g1 == respondToFSEventsFrom(g, events, 1)
  IN [g |-> g1, ret |-> Cardinality(g1.invalidNodeIds) > 0]

\* RequestGraph.serialize: the record of the nodes, the edges and the six
\* index sets
serialize(g) ==
  [nodes |-> g.nodes, edges |-> g.edges,
   invalidNodeIds |-> g.invalidNodeIds,
   incompleteNodeIds |-> g.incompleteNodeIds,
   globNodeIds |-> g.globNodeIds,
   envNodeIds |-> g.envNodeIds,
   optionNodeIds |-> g.optionNodeIds,
   unpredicatableNodeIds |-> g.unpredicatableNodeIds]

\* deserialize that leaves unpredicatableNodeIds as the constructor made it
deserialize_FreshUnpredictable(opts) ==
  [EmptyGraph EXCEPT
     !.nodes = opts.nodes, !.edges = opts.edges,
     !.invalidNodeIds = opts.invalidNodeIds,
     !.incompleteNodeIds = opts.incompleteNodeIds,
     !.globNodeIds = opts.globNodeIds,
     !.envNodeIds = opts.envNodeIds,
     !.optionNodeIds = opts.optionNodeIds]

\* RequestGraph.deserialize: a graph of the record's nodes and edges, with
\* the six index sets taken from the record
deserialize(opts) ==
  [EmptyGraph EXCEPT
     !.nodes = opts.nodes, !.edges = opts.edges,
     !.invalidNodeIds = opts.invalidNodeIds,
     !.incompleteNodeIds = opts.incompleteNodeIds,
     !.globNodeIds = opts.globNodeIds,
     !.envNodeIds = opts.envNodeIds,
     !.optionNodeIds = opts.optionNodeIds,
     !.unpredicatableNodeIds = opts.unpredicatableNodeIds]

(***************************************************************************)
(* RequestTracker                                                          *)
(***************************************************************************)
startRequest_DropsSubrequests(g, request) ==
  LET g1 == IF ~hasNode(g, request.id)
            THEN addNode(g, nodeFromRequest(request))
            ELSE clearInvalidations(g, request.id)
      g2 == [g1 EXCEPT !.edges = {e \in @ : ~(e[1] = request.id /\ e[3] = "subrequest")}]
  IN [g2 EXCEPT !.incompleteNodeIds = @ \cup {request.id},
                !.invalidNodeIds = @ \ {request.id}]

startRequest(g, request) ==
  LET g1 == IF ~hasNode(g, request.id)
            THEN addNode(g, nodeFromRequest(request))
            ELSE clearInvalidations(g, request.id)
  IN [g1 EXCEPT !.incompleteNodeIds = @ \cup {request.id},
                !.invalidNodeIds = @ \ {request.id}]

storeResult(g, id, result) ==
  IF hasNode(g, id) /\ getNode(g, id).type = "request"
  THEN [g EXCEPT !.nodes[id].value.result = result]
  ELSE g

\* hasValidResult with the negation of the invalidNodeIds test dropped
hasValidResult_InvalidIsValid(g, id) ==
  /\ id \in DOMAIN g.nodes
  /\ id \in g.invalidNodeIds
  /\ id \notin g.incompleteNodeIds

hasValidResult(g, id) ==
  /\ id \in DOMAIN g.nodes
  /\ id \notin g.invalidNodeIds
  /\ id \notin g.incompleteNodeIds

getRequestResult(g, id) == getNode(g, id).value.result

completeRequest(g, id) ==
  [g EXCEPT !.invalidNodeIds = @ \ {id}, !.incompleteNodeIds = @ \ {id}]

\* rejectRequest without the test that the node is still in the graph
rejectRequest_NoNodeTest(g, id) ==
  [g EXCEPT !.incompleteNodeIds = @ \ {id}, !.invalidNodeIds = @ \cup {id}]

\* rejectRequest that only takes the id out of incompleteNodeIds
rejectRequest_OnlyIncomplete(g, id) ==
  [g EXCEPT !.incompleteNodeIds = @ \ {id}]

rejectRequest(g, id) ==
  LET g1 == [g EXCEPT !.incompleteNodeIds = @ \ {id}]
  IN IF hasNode(g1, id)
     THEN [g1 EXCEPT !.invalidNodeIds = @ \cup {id}]
     ELSE g1

\* the try / catch / finally of runRequest once the body of the invocation
\* `run` has settled: body = "ok" (it returned bodyValue) or "err" (it threw
\* bodyValue).  Yields the graph and how the call itself settles.
settleRequest(g, run, body, bodyValue, aborted) ==
  LET id == run.id
      try == IF body = "ok" /\ ~aborted
             THEN [g |-> completeRequest(g, id), outcome |-> "ok",
                   value |-> bodyValue]
             ELSE [g |-> rejectRequest(g, id), outcome |-> "err",
                   value |-> IF body = "ok" THEN "AbortError" ELSE bodyValue]
      \* finally: nullthrows(getNode(subRequestId)), then getRequestNode(id)
      finallyThrows ==
        \/ \E sub \in run.subRequests : ~hasNode(try.g, sub)
        \/ getRequestNodeThrows(try.g, id)
  IN IF finallyThrows
     THEN [g |-> try.g, outcome |-> "err", value |-> "NullthrowsError",
           path |-> try.outcome]
     ELSE [g |-> replaceSubrequests(try.g, id, run.subRequests),
           outcome |-> try.outcome, value |-> try.value, path |-> try.outcome]

(***************************************************************************)
(* The state machine                                                       *)
(***************************************************************************)
R1 == <<"R1">>
R2 == <<"R2">>
Requests == {R1, R2}

\* the subrequest relation of the callers is acyclic by contract: a request
\* runs only requests of a higher rank
Rank(r) == IF r = R1 THEN 1 ELSE 2
MaySubrequest(parent, child) == Rank(parent) < Rank(child)

Results == {"v1"}
BodyErrors == {"E1"}

MaxRuns == 2    \* runRequest invocations suspended at the same time
MaxDecls == 1   \* dependency declarations of one invocation
MaxBatch == 1   \* events of one batch

Slots == 1..MaxRuns

NoRun ==
  [active |-> FALSE, id |-> <<>>, parent |-> 0, subRequests |-> {}, decls |-> 0,
   made |-> {}]

NoDecl ==
  [api |-> "none", filePath |-> <<>>, input |-> NoInput, name |-> <<>>,
   value |-> Undefined]

\* the environment variable and the option of the model, and their values
NODE_ENV == <<"NODE_ENV">>
EnvNames == {NODE_ENV}
MINIFY == <<"minify">>
OptionNames == {MINIFY}

\* options.env (a variable that is not set is Undefined) and the options
MakeOptions(nodeEnv, minify) ==
  [env |-> [n \in EnvNames |-> nodeEnv], opts |-> [o \in OptionNames |-> minify]]

DefaultOptions == MakeOptions("production", "false")

OnFileUpdate(filePath) ==
  [NoDecl EXCEPT !.api = "invalidateOnFileUpdate", !.filePath = filePath]
OnFileDelete(filePath) ==
  [NoDecl EXCEPT !.api = "invalidateOnFileDelete", !.filePath = filePath]
OnFileCreate(input) ==
  [NoDecl EXCEPT !.api = "invalidateOnFileCreate", !.input = input]
OnStartup == [NoDecl EXCEPT !.api = "invalidateOnStartup"]
OnEnvChange(env) ==
  [NoDecl EXCEPT !.api = "invalidateOnEnvChange", !.name = env]
OnOptionChange(option) ==
  [NoDecl EXCEPT !.api = "invalidateOnOptionChange", !.name = option]

\* the RunAPI method d.api called for requestId (createAPI)
apiThrows(g, requestId, d) ==
  IF d.api = "invalidateOnFileCreate"
  THEN invalidateOnFileCreateThrows(g, requestId, d.input)
  ELSE getRequestNodeThrows(g, requestId)

apiCall(g, requestId, d, opt) ==
  CASE d.api = "invalidateOnEnvChange" ->
         \* this.options.env[env] || ''
         invalidateOnEnvChange(g, requestId, d.name,
           IF opt.env[d.name] = Undefined THEN "" ELSE opt.env[d.name])
    [] d.api = "invalidateOnOptionChange" ->
         invalidateOnOptionChange(g, requestId, d.name, opt.opts[d.name])
    [] d.api = "invalidateOnFileUpdate" ->
         invalidateOnFileUpdate(g, requestId, d.filePath)
    [] d.api = "invalidateOnFileDelete" ->
         invalidateOnFileDelete(g, requestId, d.filePath)
    [] d.api = "invalidateOnFileCreate" ->
         invalidateOnFileCreate(g, requestId, d.input)
    [] d.api = "invalidateOnStartup" ->
         invalidateOnStartup(g, requestId)

\* the declaration d as `declared` records it: with the value that the
\* variable or the option it names has in the tracker's options at that time
Captured(d, opt) ==
  [d EXCEPT !.value =
     IF d.api = "invalidateOnEnvChange" THEN opt.env[d.name]
     ELSE IF d.api = "invalidateOnOptionChange" THEN opt.opts[d.name]
     ELSE Undefined]

NoLast ==
  [op |-> "init", id |-> <<>>, executed |-> FALSE, value |-> Undefined,
   threw |-> FALSE, decl |-> NoDecl, events |-> <<>>, ret |-> FALSE,
   invalidBefore |-> {}, settled |-> <<>>, repeated |-> FALSE,
   options |-> DefaultOptions]

Init ==
  /\ graph = EmptyGraph
  /\ runs = [s \in Slots |-> NoRun]
  /\ declared = [r \in Requests |-> {}]
  /\ last = NoLast
  /\ options = DefaultOptions

FreeSlot(rs) == CHOOSE s \in Slots : ~rs[s].active /\ \A t \in 1..(s - 1) : rs[t].active

\* runRequest(request), called by `parent` (0: a caller outside any body),
\* up to the point where the body is suspended
Call(parent, id, rs, cap) ==
  IF hasValidResult(graph, id)
  THEN /\ graph' = graph
       /\ runs' = rs
       /\ declared' = declared
       /\ last' = [NoLast EXCEPT !.op = "runRequest", !.id = id,
                                 !.value = getRequestResult(graph, id)]
  ELSE /\ Cardinality({s \in Slots : rs[s].active}) < cap
       /\ graph' = startRequest(graph, [id |-> id])
       /\ runs' = [rs EXCEPT ![FreeSlot(rs)] =
                     [NoRun EXCEPT !.active = TRUE, !.id = id, !.parent = parent]]
       /\ declared' = [declared EXCEPT ![id] = {}]
       /\ last' = [NoLast EXCEPT !.op = "runRequest", !.id = id,
                                 !.executed = TRUE]

\* tracker.runRequest(request) from outside any request body
RunRequest(cap) ==
  \E id \in Requests :
    /\ id \in Requests
    /\ Call(0, id, runs, cap)
    /\ UNCHANGED options

\* api.runRequest(subRequest) inside the body of invocation f
\* `misuse` tells whether the bodies also run requests of their own rank or
\* of a lower one
ApiRunRequestWhere(cap, misuse) ==
  \E f \in Slots, id \in Requests :
    /\ runs[f].active
    /\ misuse \/ MaySubrequest(runs[f].id, id)
    /\ Call(f, id, [runs EXCEPT ![f].subRequests = @ \cup {id}], cap)
    /\ UNCHANGED options

ApiRunRequest(cap) == ApiRunRequestWhere(cap, FALSE)

\* api.storeResult(result) inside the body of invocation f
ApiStoreResult(results) ==
  \E f \in Slots, v \in results :
    /\ runs[f].active
    /\ graph' = storeResult(graph, runs[f].id, v)
    /\ last' = [NoLast EXCEPT !.op = "storeResult", !.id = runs[f].id,
                              !.value = v]
    /\ UNCHANGED <<runs, declared, options>>

\* one of the api.invalidateOn... methods inside the body of invocation f
ApiInvalidateOnUpTo(decls, cap) ==
  \E f \in Slots, d \in decls :
    /\ runs[f].active
    /\ runs[f].decls < cap
    /\ runs' = [runs EXCEPT ![f].decls = @ + 1,
                            ![f].made = IF apiThrows(graph, runs[f].id, d)
                                        THEN @ ELSE @ \cup {d}]
    /\ UNCHANGED options
    /\ IF apiThrows(graph, runs[f].id, d)
       THEN /\ UNCHANGED <<graph, declared>>
            /\ last' = [NoLast EXCEPT !.op = "invalidateOn", !.id = runs[f].id,
                                      !.decl = d, !.threw = TRUE]
       ELSE /\ graph' = apiCall(graph, runs[f].id, d, options)
            /\ declared' = [declared EXCEPT ![runs[f].id] =
                                       @ \cup {Captured(d, options)}]
            /\ last' = [NoLast EXCEPT !.op = "invalidateOn", !.id = runs[f].id,
                                      !.decl = d]

ApiInvalidateOn(decls) == ApiInvalidateOnUpTo(decls, MaxDecls)

\* The body of invocation f settles and runRequest runs to its end; aborted
\* tells whether the signal installed by setSignal is aborted at that time.
\* When the call fails and k > 0, the caller's body does not catch the error:
\* it fails with it in turn, and so on through k callers.
RECURSIVE settleChain(_, _, _, _, _, _, _)
settleChain(g, rs, f, body, bodyValue, aborted, k) ==
  LET run == rs[f]
      one == settleRequest(g, run, body, bodyValue, aborted)
      rs1 == [s \in Slots |->
                IF s = f THEN NoRun
                ELSE IF rs[s].parent = f THEN [rs[s] EXCEPT !.parent = 0]
                ELSE rs[s]]
      entry == [id |-> run.id, body |-> body, bodyValue |-> bodyValue,
                aborted |-> aborted, path |-> one.path,
                outcome |-> one.outcome, value |-> one.value,
                subRequests |-> run.subRequests, made |-> run.made]
  IN IF one.outcome = "err" /\ k > 0 /\ run.parent # 0
     THEN LET rest == settleChain(one.g, rs1, run.parent, "err",
                                  one.value, aborted, k - 1)
          IN [g |-> rest.g, runs |-> rest.runs,
              settled |-> <<entry>> \o rest.settled]
     ELSE [g |-> one.g, runs |-> rs1, settled |-> <<entry>>]

Settle(f, body, bodyValue, aborted, k) ==
  LET r == settleChain(graph, runs, f, body, bodyValue, aborted, k)
  IN /\ graph' = r.g
     /\ runs' = r.runs
     /\ UNCHANGED <<declared, options>>
     /\ last' = [NoLast EXCEPT !.op = "settle", !.id = runs[f].id,
                               !.settled = r.settled]

\* the depth of invocation f in the chain of callers
RECURSIVE Depth(_, _)
Depth(rs, f) == IF rs[f].parent = 0 THEN 0 ELSE 1 + Depth(rs, rs[f].parent)

BodyReturns(results) ==
  \E f \in Slots, v \in results :
    /\ runs[f].active
    /\ \E aborted \in BOOLEAN :
         \E k \in 0..(IF aborted THEN Depth(runs, f) ELSE 0) :
           Settle(f, "ok", v, aborted, k)

BodyThrows ==
  \E f \in Slots, e \in BodyErrors :
    /\ runs[f].active
    /\ \E aborted \in BOOLEAN :
         \E k \in 0..Depth(runs, f) : Settle(f, "err", e, aborted, k)

EventTypes == {"create", "update", "delete"}

BatchesUpTo(events, cap) == UNION {[1..n -> events] : n \in 0..cap}

Batches(events) == BatchesUpTo(events, MaxBatch)

\* tracker.respondToFSEvents(events), for the batches of at most cap events
RespondToFSEventsUpTo(menu, cap) ==
  \E events \in BatchesUpTo(menu, cap) :
    LET r == respondToFSEvents(graph, events)
    IN /\ graph' = r.g
       /\ last' = [NoLast EXCEPT !.op = "respondToFSEvents",
                                 !.events = events, !.ret = r.ret,
                                 !.invalidBefore = graph.invalidNodeIds,
                                 !.repeated =
                                    /\ last.op = "respondToFSEvents"
                                    /\ last.events = events]
       /\ UNCHANGED <<runs, declared, options>>

RespondToFSEvents(menu) == RespondToFSEventsUpTo(menu, MaxBatch)

\* tracker.removeRequest(id)
RemoveRequest ==
  \E id \in Requests :
    /\ hasNode(graph, id)
    /\ graph' = removeById(graph, id)
    /\ declared' = [declared EXCEPT ![id] = {}]
    /\ last' = [NoLast EXCEPT !.op = "removeRequest", !.id = id]
    /\ UNCHANGED <<runs, options>>

\* The process ends with no invocation in flight; the next one builds its
\* tracker, with its own options, on the graph deserialized from what this
\* one serialized.
Restart(menu) ==
  \E opt \in menu :
    /\ \A s \in Slots : ~runs[s].active
    /\ graph' = deserialize(serialize(graph))
    /\ options' = opt
    /\ last' = [NoLast EXCEPT !.op = "restart", !.options = opt]
    /\ UNCHANGED <<runs, declared>>

\* graph.invalidateUnpredictableNodes()
InvalidateUnpredictableNodes ==
  /\ graph' = invalidateUnpredictableNodes(graph)
  /\ last' = [NoLast EXCEPT !.op = "invalidateUnpredictableNodes",
                            !.threw = invalidateUnpredictableNodesThrows(graph),
                            !.invalidBefore = graph.invalidNodeIds]
  /\ UNCHANGED <<runs, declared, options>>

\* graph.invalidateEnvNodes(env)
InvalidateEnvNodes(menu) ==
  \E opt \in menu :
    /\ graph' = invalidateEnvNodes(graph, opt.env)
    /\ last' = [NoLast EXCEPT !.op = "invalidateEnvNodes", !.options = opt,
                              !.invalidBefore = graph.invalidNodeIds]
    /\ UNCHANGED <<runs, declared, options>>

\* graph.invalidateOptionNodes(options)
InvalidateOptionNodes(menu) ==
  \E opt \in menu :
    /\ graph' = invalidateOptionNodes(graph, opt.opts)
    /\ last' = [NoLast EXCEPT !.op = "invalidateOptionNodes", !.options = opt,
                              !.invalidBefore = graph.invalidNodeIds]
    /\ UNCHANGED <<runs, declared, options>>

PA == <<"/", "a", "/", "b", "/", "i", ".js">>      \* /a/b/i.js

RunDecls == {OnFileUpdate(PA)}
RunEvents == {[path |-> PA, type |-> "update"]}

Next ==
  \/ RunRequest(MaxRuns)
  \/ ApiRunRequest(MaxRuns)
  \/ ApiStoreResult(Results)
  \/ ApiInvalidateOn(RunDecls)
  \/ BodyReturns(Results)
  \/ BodyThrows
  \/ RespondToFSEvents(RunEvents)
  \/ RemoveRequest
  \/ Restart({DefaultOptions})

Spec == Init /\ [][Next]_vars

(***************************************************************************)
(* The responder's specification: the same operations, with bodies that    *)
(* declare the file dependencies below and events at the paths below.      *)
(***************************************************************************)
PT == <<"/", "a", "/", "b", "/", "i", ".ts">>      \* /a/b/i.ts
PS == <<"/", "a", "/", "b", "/", "i">>             \* /a/b/i
PJ == <<"/", "a", "/", "p", ".json">>              \* /a/p.json
PX == <<"/", "x", "/", "p", ".json">>              \* /x/p.json
PM == <<"/", "a", "/", "nm", "/", "foo">>          \* /a/nm/foo
NJ == <<"p", ".json">>                             \* p.json
NM == <<"nm", "/", "foo">>                         \* nm/foo
GJ == <<"/", "a", "/", "*", ".json">>              \* /a/*.json

Ev(path, type) == [path |-> path, type |-> type]

\* invocations suspended at the same time in the responder's specifications
MaxFSRuns == 1

NextWith(decls, events) ==
  \/ RunRequest(MaxFSRuns)
  \/ ApiRunRequest(MaxFSRuns)
  \/ ApiInvalidateOn(decls)
  \/ BodyReturns(Results)
  \/ BodyThrows
  \/ RespondToFSEvents(events)

\* File nodes: update and delete events
FileDecls ==
  {OnFileUpdate(PA), OnFileDelete(PA), OnFileCreate(FileNameInput(NJ, PA))}
FileEvents == {Ev(PA, "update"), Ev(PA, "create"), Ev(PA, "delete")}
SpecFile == Init /\ [][NextWith(FileDecls, FileEvents)]_vars

\* ExtensionlessFile nodes
ExtDecls ==
  {OnFileCreate(ExtensionsInput(PS, {<<".js">>})),
   OnFileCreate(ExtensionsInput(PS, {<<".ts">>})),
   OnFileCreate(ExtensionsInput(PS, {<<>>})),
   OnFileUpdate(PA)}
ExtEvents == {Ev(PA, "create"), Ev(PT, "create"), Ev(PS, "create")}
SpecExt == Init /\ [][NextWith(ExtDecls, ExtEvents)]_vars

\* FileName chains
AboveDecls ==
  {OnFileCreate(FileNameInput(NJ, PA)), OnFileCreate(FileNameInput(NM, PA)),
   OnFileUpdate(PJ)}
AboveEvents == {Ev(PJ, "create"), Ev(PX, "create"), Ev(PM, "create")}
SpecAbove == Init /\ [][NextWith(AboveDecls, AboveEvents)]_vars

\* Glob nodes
GlobDecls == {OnFileCreate(GlobInput(GJ)), OnFileUpdate(PJ)}
GlobEvents == {Ev(PJ, "create"), Ev(PX, "create"), Ev(PJ, "delete")}
SpecGlob == Init /\ [][NextWith(GlobDecls, GlobEvents)]_vars

(***************************************************************************)
(* The startup invalidations: bodies that declare a dependency on the      *)
(* environment variable, on the option or on startup, processes that       *)
(* restart with other options, and the invalidate...Nodes calls made on    *)
(* the graph.                                                              *)
(***************************************************************************)
NextBuild(decls) ==
  \/ RunRequest(MaxFSRuns)
  \/ ApiRunRequest(MaxFSRuns)
  \/ ApiInvalidateOn(decls)
  \/ BodyReturns(Results)
  \/ BodyThrows

NextStartup(decls, menu) ==
  \/ NextBuild(decls)
  \/ Restart(menu)

\* The next process, whose options are `opt`: it deserializes the graph and
\* calls graph.invalidateEnvNodes(options.env) before any request runs.
RestartEnv(menu) ==
  \E opt \in menu :
    /\ \A s \in Slots : ~runs[s].active
    /\ graph' = invalidateEnvNodes(deserialize(serialize(graph)), opt.env)
    /\ options' = opt
    /\ last' = [NoLast EXCEPT !.op = "invalidateEnvNodes", !.options = opt,
                              !.invalidBefore = graph.invalidNodeIds]
    /\ UNCHANGED <<runs, declared>>

\* The same with graph.invalidateOptionNodes(options).
RestartOption(menu) ==
  \E opt \in menu :
    /\ \A s \in Slots : ~runs[s].active
    /\ graph' = invalidateOptionNodes(deserialize(serialize(graph)), opt.opts)
    /\ options' = opt
    /\ last' = [NoLast EXCEPT !.op = "invalidateOptionNodes",
                              !.options = opt,
                              !.invalidBefore = graph.invalidNodeIds]
    /\ UNCHANGED <<runs, declared>>

\* Env nodes: the environment changes from one process to the next, and
\* invalidateEnvNodes is called with the environment of the process
EnvOptions ==
  {MakeOptions(e, "false") : e \in {"production", "development", Undefined}}
SpecEnv ==
  Init /\ [][NextBuild({OnEnvChange(NODE_ENV)})
              \/ RestartEnv(EnvOptions)
              \/ InvalidateEnvNodes({options})]_vars

\* Option nodes, in the same way
MinifyOptions == {MakeOptions("production", m) : m \in {"false", "true"}}
SpecOption ==
  Init /\ [][NextBuild({OnOptionChange(MINIFY)})
              \/ RestartOption(MinifyOptions)
              \/ InvalidateOptionNodes({options})]_vars

\* unpredicatableNodeIds, with requests that are removed
SpecUnpredictable ==
  Init /\ [][NextStartup({OnStartup, OnFileUpdate(PA)}, {DefaultOptions})
              \/ InvalidateUnpredictableNodes
              \/ RemoveRequest]_vars

\* Declarations that fail: inputs of invalidateOnFileCreate with fields
\* missing, and declarations of bodies whose request was removed
ShapeInputs ==
  {NoInput,
   [NoInput EXCEPT !.fields = {"filePath"}, !.filePath = PS],
   [NoInput EXCEPT !.fields = {"fileName"}, !.fileName = NJ],
   [NoInput EXCEPT !.fields = {"extensions"}, !.extensions = {<<".js">>}],
   GlobInput(GJ)}
ShapeDecls == {OnFileCreate(i) : i \in ShapeInputs} \cup {OnFileUpdate(PA)}
SpecShape ==
  Init /\ [][NextBuild(ShapeDecls) \/ RemoveRequest]_vars

\* graph.invalidateNode(node) for the node of a request
InvalidateNode ==
  \E id \in {n \in DOMAIN graph.nodes : graph.nodes[n].type = "request"} :
    /\ graph' = invalidateNode(graph, id)
    /\ last' = [NoLast EXCEPT !.op = "invalidateNode", !.id = id,
                              !.threw = invalidateNodeOverflows(graph, id),
                              !.invalidBefore = graph.invalidNodeIds]
    /\ UNCHANGED <<runs, declared, options>>

\* invalidateNode on the graphs of three requests whose runs respected the
\* contract: any acyclic set of subrequest edges, any set of invalid
\* requests
R3 == <<"R3">>
ChainRequests == {R1, R2, R3}
SubrequestEdges ==
  {E \in SUBSET {e \in ChainRequests \X ChainRequests \X {"subrequest"} :
                   e[1] # e[2]} :
     \E rank \in [ChainRequests -> 1..3] :
       \A e \in E : rank[e[1]] < rank[e[2]]}
InitInvalidate ==
  /\ \E E \in SubrequestEdges, invalid \in SUBSET ChainRequests :
       graph = [EmptyGraph EXCEPT
                  !.nodes = [r \in ChainRequests |->
                               nodeFromRequest([id |-> r])],
                  !.edges = E,
                  !.invalidNodeIds = invalid]
  /\ runs = [s \in Slots |-> NoRun]
  /\ declared = [r \in Requests |-> {}]
  /\ last = NoLast
  /\ options = DefaultOptions
SpecInvalidate == InitInvalidate /\ [][InvalidateNode]_vars

\* Bodies that run any request as a subrequest, themselves included
SpecCycle ==
  Init /\ [][\/ RunRequest(MaxRuns)
             \/ ApiRunRequestWhere(MaxRuns, TRUE)
             \/ BodyReturns(Results)
             \/ InvalidateNode]_vars

\* Bodies that declare up to MaxRepeatDecls dependencies, of every kind
MaxRepeatDecls == 3
RepeatDecls ==
  {OnFileUpdate(PA), OnFileDelete(PA), OnEnvChange(NODE_ENV),
   OnOptionChange(MINIFY), OnFileCreate(GlobInput(GJ)),
   OnFileCreate(ExtensionsInput(PS, {<<".js">>})),
   OnFileCreate(FileNameInput(NJ, PA))}
SpecRepeat ==
  Init /\ [][\/ RunRequest(MaxFSRuns)
             \/ ApiInvalidateOnUpTo(RepeatDecls, MaxRepeatDecls)
             \/ BodyReturns(Results)]_vars

(***************************************************************************)
(* Properties of runRequest                                                *)
(***************************************************************************)

\* C1: a runRequest(request) called while the request's node is in the graph
\* and its id is in neither invalidNodeIds nor incompleteNodeIds returns the
\* result stored on the node, does not start the body, and leaves the whole
\* graph (nodes, edges, the six index sets) as it was.
C1_MemoizedRunLeavesGraph ==
  [][\A id \in Requests :
       ( /\ last'.op = "runRequest"
         /\ last'.id = id
         /\ id \in DOMAIN graph.nodes
         /\ id \notin graph.invalidNodeIds
         /\ id \notin graph.incompleteNodeIds )
       => /\ ~last'.executed
          /\ last'.value = graph.nodes[id].value.result
          /\ graph' = graph
          /\ \A s \in Slots : runs'[s].active = runs[s].active]_vars

\* a runRequest has just returned the stored result "v1" of a valid request
\* that has a subrequest edge
C1_Witness ==
  /\ last.op = "runRequest"
  /\ ~last.executed
  /\ last.value = "v1"
  /\ last.id \in DOMAIN graph.nodes
  /\ last.id \notin graph.invalidNodeIds \cup graph.incompleteNodeIds
  /\ \E e \in graph.edges : e[1] = last.id /\ e[3] = "subrequest"

\* C2: once a runRequest(r) that executed r's body has settled, the targets
\* of r's subrequest edges are exactly the ids that invocation passed to
\* api.runRequest.
C2_SubrequestEdgesAreDeclared ==
  last.op = "settle" =>
    \A i \in DOMAIN last.settled :
      {e[2] : e \in {x \in graph.edges :
                       x[1] = last.settled[i].id /\ x[3] = "subrequest"}}
        = last.settled[i].subRequests

\* C4: when the body of runRequest(r) fails, the call fails with the body's
\* error, and r, if its node is still in the graph, is in invalidNodeIds and
\* not in incompleteNodeIds; so are the callers whose bodies fail with the
\* error of the call they made.
C4_FailureIsTheBodysError ==
  last.op = "settle" =>
    \A i \in DOMAIN last.settled :
      last.settled[i].body = "err" =>
        /\ last.settled[i].outcome = "err"
        /\ last.settled[i].value = last.settled[i].bodyValue
        /\ last.settled[i].id \in DOMAIN graph.nodes =>
             /\ last.settled[i].id \in graph.invalidNodeIds
             /\ last.settled[i].id \notin graph.incompleteNodeIds

C3_UpdateEventInvalidates ==
  [][\A r \in Requests :
       /\ \A i \in DOMAIN last'.events :
            ( /\ last'.op = "respondToFSEvents"
              /\ last'.events[i].type \in {"update", "create"}
              /\ r \in DOMAIN graph.nodes
              /\ r \notin graph.invalidNodeIds
              /\ r \notin graph.incompleteNodeIds
              /\ last'.events[i].path \in DOMAIN graph.nodes
              /\ graph.nodes[last'.events[i].path].type = "file"
              /\ <<r, last'.events[i].path, "invalidated_by_update">>
                   \in graph.edges )
            => /\ r \in graph'.invalidNodeIds
               /\ r \in DOMAIN graph'.nodes
       /\ ( /\ last'.op = "runRequest"
            /\ last'.id = r
            /\ r \in graph.invalidNodeIds )
          => /\ last'.executed
             /\ r \in graph'.incompleteNodeIds]_vars

\* a create event at /a/b/i.js has just invalidated a request that had a
\* valid result and an invalidated_by_update edge to the File node of that
\* path
C3_Witness ==
  /\ last.op = "respondToFSEvents"
  /\ \E i \in DOMAIN last.events : last.events[i] = Ev(PA, "create")
  /\ \E r \in Requests :
       /\ <<r, PA, "invalidated_by_update">> \in graph.edges
       /\ r \notin last.invalidBefore
       /\ r \notin graph.incompleteNodeIds
       /\ r \in graph.invalidNodeIds

\* C6: a create event at P+e, with e one of the extensions S of an
\* invalidateOnFileCreate({filePath: P, extensions: S}) that request r
\* declared in its last run, leaves r in invalidNodeIds, whatever else the
\* graph holds.
C6_ExtensionCreateInvalidates ==
  [][\A r \in Requests : \A d \in declared[r] :
       \A i \in DOMAIN last'.events :
         ( /\ last'.op = "respondToFSEvents"
           /\ d.api = "invalidateOnFileCreate"
           /\ "glob" \notin d.input.fields
           /\ "extensions" \in d.input.fields
           /\ last'.events[i].type = "create"
           /\ \E e \in d.input.extensions :
                last'.events[i].path = d.input.filePath \o e )
         => r \in graph'.invalidNodeIds]_vars

\* C7: with invalidateOnFileCreate({fileName: N, aboveFilePath: P}) declared
\* by request r in its last run, N of one segment: a create event at D/N
\* with D a directory above P leaves r in invalidNodeIds; and a batch of one
\* create event at D/N with D not above P, no request having declared
\* anything else, adds nothing to invalidNodeIds.
C7_FileNameAboveInvalidates ==
  [][\A r \in Requests : \A d \in declared[r] :
       \A i \in DOMAIN last'.events :
         LET path == last'.events[i].path
             n == Len(path) - Len(d.input.fileName)
             D == SubSeq(path, 1, n - 1)
         IN ( /\ last'.op = "respondToFSEvents"
              /\ d.api = "invalidateOnFileCreate"
              /\ d.input.fields = {"fileName", "aboveFilePath"}
              /\ \A k \in DOMAIN d.input.fileName : d.input.fileName[k] # SEP
              /\ last'.events[i].type = "create"
              /\ n > 1
              /\ path[n] = SEP
              /\ SubSeq(path, n + 1, Len(path)) = d.input.fileName )
            => /\ isDirectoryInside(d.input.aboveFilePath, D)
                  => r \in graph'.invalidNodeIds
               /\ ( /\ ~isDirectoryInside(d.input.aboveFilePath, D)
                    /\ Len(last'.events) = 1
                    /\ \A r2 \in Requests : declared[r2] \subseteq {d} )
                  => graph'.invalidNodeIds = graph.invalidNodeIds]_vars

\* C8: with invalidateOnFileCreate({fileName: N, aboveFilePath: P}) declared
\* by request r in its last run, N of several segments (nm/foo): a create
\* event at D/N with D a directory above P leaves r in invalidNodeIds.
C8_FileNameChainInvalidates ==
  [][\A r \in Requests : \A d \in declared[r] :
       \A i \in DOMAIN last'.events :
         LET path == last'.events[i].path
             n == Len(path) - Len(d.input.fileName)
             D == SubSeq(path, 1, n - 1)
         IN ( /\ last'.op = "respondToFSEvents"
              /\ d.api = "invalidateOnFileCreate"
              /\ d.input.fields = {"fileName", "aboveFilePath"}
              /\ \E k \in DOMAIN d.input.fileName : d.input.fileName[k] = SEP
              /\ last'.events[i].type = "create"
              /\ n > 1
              /\ path[n] = SEP
              /\ SubSeq(path, n + 1, Len(path)) = d.input.fileName
              /\ isDirectoryInside(d.input.aboveFilePath, D) )
            => r \in graph'.invalidNodeIds]_vars

\* C9: a create event at a path that matches the glob of an
\* invalidateOnFileCreate({glob}) that request r declared in its last run
\* leaves r in invalidNodeIds, whatever else the graph holds.
C9_GlobCreateInvalidates ==
  [][\A r \in Requests : \A d \in declared[r] :
       \A i \in DOMAIN last'.events :
         ( /\ last'.op = "respondToFSEvents"
           /\ d.api = "invalidateOnFileCreate"
           /\ "glob" \in d.input.fields
           /\ last'.events[i].type = "create"
           /\ isGlobMatch(last'.events[i].path, d.input.glob) )
         => r \in graph'.invalidNodeIds]_vars

\* C10: a batch with a delete event at p leaves in invalidNodeIds every
\* request that has an invalidated_by_delete edge to the node p, and the
\* requests from which such a request is reached along subrequest edges; a
\* batch of delete events adds no other request, so none whose edges to p
\* are only invalidated_by_update or invalidated_by_create edges.
C10_DeleteEventInvalidates ==
  [][last'.op = "respondToFSEvents" =>
       LET evs == last'.events
           deleted == {evs[i].path :
                         i \in {j \in DOMAIN evs : evs[j].type = "delete"}}
           holders == {r \in DOMAIN graph.nodes :
                         \E p \in deleted :
                           <<r, p, "invalidated_by_delete">> \in graph.edges}
           expected == UNION {Ancestors(graph, r) : r \in holders}
       IN /\ expected \subseteq graph'.invalidNodeIds
          /\ (\A i \in DOMAIN evs : evs[i].type = "delete") =>
               graph'.invalidNodeIds \ graph.invalidNodeIds
                 \subseteq expected]_vars

\* a delete event at /a/b/i.js has just invalidated a request with an
\* invalidated_by_delete edge to the File node and a request that runs it,
\* while a request with only an invalidated_by_update edge to it was left
\* valid
C10_Witness ==
  /\ last.op = "respondToFSEvents"
  /\ \E i \in DOMAIN last.events : last.events[i] = Ev(PA, "delete")
  /\ \/ /\ <<R2, PA, "invalidated_by_delete">> \in graph.edges
        /\ <<R1, R2, "subrequest">> \in graph.edges
        /\ {R1, R2} \cap last.invalidBefore = {}
        /\ {R1, R2} \subseteq graph.invalidNodeIds
     \/ /\ <<R2, PA, "invalidated_by_delete">> \in graph.edges
        /\ <<R1, PA, "invalidated_by_update">> \in graph.edges
        /\ <<R1, R2, "subrequest">> \notin graph.edges
        /\ R2 \notin last.invalidBefore
        /\ R2 \in graph.invalidNodeIds
        /\ R1 \notin graph.invalidNodeIds
        /\ R1 \notin graph.incompleteNodeIds

(***************************************************************************)
(* Properties of the startup invalidations                                 *)
(***************************************************************************)

\* C11: when request r declared invalidateOnEnvChange(n) in its last run
\* while the value of n was v and r is not in invalidNodeIds,
\* invalidateEnvNodes(env) with env[n] # v leaves r and the requests that
\* reach r along subrequest edges in invalidNodeIds; and a second
\* invalidateEnvNodes with the same env right after the first leaves
\* invalidNodeIds as it is.
C11_EnvChangeInvalidates ==
  [][/\ \A r \in Requests : \A d \in declared[r] :
          ( /\ last'.op = "invalidateEnvNodes"
            /\ r \notin graph.invalidNodeIds
            /\ d.api = "invalidateOnEnvChange"
            /\ last'.options.env[d.name] # d.value )
          => Ancestors(graph, r) \subseteq graph'.invalidNodeIds
     /\ ( /\ last.op = "invalidateEnvNodes"
          /\ last'.op = "invalidateEnvNodes"
          /\ last'.options = last.options )
        => graph'.invalidNodeIds = graph.invalidNodeIds]_vars

\* C12: right after invalidateOnEnvChange(n) the Env node of n holds the
\* value n has at that declaration; and when every invalidateOnEnvChange(n)
\* of the requests' last runs was made while n was set to the value env[n],
\* invalidateEnvNodes(env) adds no request to invalidNodeIds.
C12_EnvNodeHoldsLatestValue ==
  [][/\ ( /\ last'.op = "invalidateOn"
          /\ last'.decl.api = "invalidateOnEnvChange"
          /\ ~last'.threw )
        => graph'.nodes[<<"env:">> \o last'.decl.name].value.value
             = IF options.env[last'.decl.name] = Undefined THEN ""
               ELSE options.env[last'.decl.name]
     /\ ( /\ last'.op = "invalidateEnvNodes"
          /\ \A r \in Requests : \A d \in declared[r] :
               d.api = "invalidateOnEnvChange"
                 => /\ d.value = last'.options.env[d.name]
                    /\ d.value # Undefined )
        => graph'.invalidNodeIds = graph.invalidNodeIds]_vars

\* C13: when request r declared invalidateOnOptionChange(name) in its last
\* run, r is not in invalidNodeIds and the hash of options[name] differs
\* from the hash of the value the option had at that declaration,
\* invalidateOptionNodes(options) leaves r and the requests that reach r
\* along subrequest edges in invalidNodeIds;
\* a runRequest(r) called while r is in invalidNodeIds starts the body.
C13_OptionChangeInvalidates ==
  [][\A r \in Requests :
       /\ \A d \in declared[r] :
            ( /\ last'.op = "invalidateOptionNodes"
              /\ r \notin graph.invalidNodeIds
              /\ d.api = "invalidateOnOptionChange"
              /\ hashFromOption(last'.options.opts[d.name])
                   # hashFromOption(d.value) )
            => Ancestors(graph, r) \subseteq graph'.invalidNodeIds
       /\ ( /\ last'.op = "runRequest"
            /\ last'.id = r
            /\ r \in graph.invalidNodeIds )
          => last'.executed]_vars

\* C14: invalidateUnpredictableNodes leaves in invalidNodeIds every request
\* that called invalidateOnStartup in its last run; and when no request
\* called it in its last run, invalidateUnpredictableNodes adds nothing to
\* invalidNodeIds.
C14_StartupInvalidatesUntilRerun ==
  [][last'.op = "invalidateUnpredictableNodes" =>
       /\ \A r \in Requests :
            OnStartup \in declared[r] => r \in graph'.invalidNodeIds
       /\ (\A r \in Requests : OnStartup \notin declared[r])
            => graph'.invalidNodeIds = graph.invalidNodeIds]_vars

\* C18: removeRequest(id) leaves no node and no edge from or to id and
\* leaves id in none of the six index sets; and invalidateUnpredictableNodes
\* never fails.
C18_RemovalPurgesEveryIndex ==
  [][/\ last'.op = "removeRequest" =>
          /\ last'.id \notin DOMAIN graph'.nodes
          /\ \A e \in graph'.edges : e[1] # last'.id /\ e[2] # last'.id
          /\ last'.id \notin graph'.invalidNodeIds
          /\ last'.id \notin graph'.incompleteNodeIds
          /\ last'.id \notin graph'.globNodeIds
          /\ last'.id \notin graph'.envNodeIds
          /\ last'.id \notin graph'.optionNodeIds
          /\ \A i \in DOMAIN graph'.unpredicatableNodeIds :
               graph'.unpredicatableNodeIds[i] # last'.id
     /\ last'.op = "invalidateUnpredictableNodes" => ~last'.threw]_vars

\* tracker.getInvalidRequests() throws: nullthrows on a missing node, or the
\* invariant on the node type
getInvalidRequestsThrows(g) ==
  \E id \in g.invalidNodeIds :
    \/ ~hasNode(g, id)
    \/ getNode(g, id).type # "request"

(***************************************************************************)
(* Properties of the index sets                                            *)
(***************************************************************************)

\* C15: when a runRequest(r) starts the body of a request that has a node
\* (startRequest then calls clearInvalidations(r)), r has no outgoing
\* invalidated_by_update, invalidated_by_delete or invalidated_by_create
\* edge, getInvalidations(r) is empty and r is not in
\* unpredicatableNodeIds; and a batch of events adds to invalidNodeIds no
\* request that has no outgoing edge at all.
C15_StartClearsInvalidations ==
  [][\A r \in Requests :
       /\ ( /\ last'.op = "runRequest"
            /\ last'.executed
            /\ last'.id = r
            /\ r \in DOMAIN graph.nodes )
          => /\ getInvalidations(graph', r) = {}
             /\ \A e \in graph'.edges :
                  e[1] = r => e[3] \notin {"invalidated_by_update",
                                           "invalidated_by_delete",
                                           "invalidated_by_create"}
             /\ \A i \in DOMAIN graph'.unpredicatableNodeIds :
                  graph'.unpredicatableNodeIds[i] # r
       /\ ( /\ last'.op = "respondToFSEvents"
            /\ r \notin graph.invalidNodeIds
            /\ \A e \in graph.edges : e[1] # r )
          => r \notin graph'.invalidNodeIds]_vars

\* R1 has just been started again after a run in which it declared a
\* dependency on /a/b/i.js (R2 never ran), and has no edge left
C15_Witness ==
  /\ last.op = "runRequest"
  /\ last.executed
  /\ last.id = R1
  /\ PA \in DOMAIN graph.nodes
  /\ R2 \notin DOMAIN graph.nodes
  /\ \A e \in graph.edges : e[1] # R1

\* C16: respondToFSEvents(events) returns true exactly when some request
\* that was not in invalidNodeIds before the call is in it after the call.
C16_ReturnsTrueIffNewlyInvalid ==
  last.op = "respondToFSEvents" =>
    (last.ret <=> graph.invalidNodeIds \ last.invalidBefore # {})

\* C17: a respondToFSEvents(events) that directly follows a
\* respondToFSEvents with the same events leaves the nodes, the edges and
\* the six index sets as they are.
C17_SameBatchTwice ==
  [][(last'.op = "respondToFSEvents" /\ last'.repeated)
       => graph' = graph]_vars

\* a batch with an event at /a/b/i.js has just been processed for the second
\* time in a row, two requests with an edge to that File node being in
\* invalidNodeIds
C17_Witness ==
  /\ last.op = "respondToFSEvents"
  /\ last.repeated
  /\ \E i \in DOMAIN last.events : last.events[i].path = PA
  /\ \A r \in Requests :
       /\ r \in graph.invalidNodeIds
       /\ \E e \in graph.edges : e[1] = r /\ e[2] = PA

\* C19: every id of invalidNodeIds and of incompleteNodeIds is the id of a
\* node of the graph, and getInvalidRequests() does not throw.
C19_IndexedIdsAreNodes ==
  /\ graph.invalidNodeIds \cup graph.incompleteNodeIds
       \subseteq DOMAIN graph.nodes
  /\ ~getInvalidRequestsThrows(graph)

\* an invocation whose request was removed while its body was suspended has
\* just failed, and the request has no node
C19_Witness ==
  /\ last.op = "settle"
  /\ \E i \in DOMAIN last.settled :
       /\ last.settled[i].path = "err"
       /\ last.settled[i].id \notin DOMAIN graph.nodes

\* C20: no id is in both invalidNodeIds and incompleteNodeIds.
C20_InvalidAndIncompleteDisjoint ==
  graph.invalidNodeIds \cap graph.incompleteNodeIds = {}

(***************************************************************************)
(* Properties of serialize and deserialize                                 *)
(***************************************************************************)

C22_FailedDeclarationLeavesGraph ==
  [][( /\ last'.op = "invalidateOn"
       /\ \/ getRequestNodeThrows(graph, last'.id)
          \/ /\ last'.decl.api = "invalidateOnFileCreate"
             /\ last'.decl.input.fields \notin
                  {{"glob"}, {"filePath", "extensions"},
                   {"fileName", "aboveFilePath"}} )
       => /\ last'.threw
          /\ graph' = graph]_vars

\* C24: an invalidateOn... call that the same run of the request already
\* made with the same arguments leaves the nodes and the edges as they are.
C24_RepeatedDeclaration ==
  [][( /\ last'.op = "invalidateOn"
       /\ ~last'.threw
       /\ Captured(last'.decl, options) \in declared[last'.id] )
       => /\ graph'.nodes = graph.nodes
          /\ graph'.edges = graph.edges]_vars

\* a body has just made, after two other declarations, the declaration it
\* made first
C24_Witness ==
  /\ last.op = "invalidateOn"
  /\ ~last.threw
  /\ \E f \in Slots :
       /\ runs[f].active
       /\ runs[f].id = last.id
       /\ runs[f].decls = 3
       /\ Cardinality(declared[last.id]) = 2
       /\ Captured(last.decl, options) \in declared[last.id]

(***************************************************************************)
(* Properties of the end of runRequest                                     *)
(***************************************************************************)

\* C23: when the body of runRequest(r) returns while the signal is aborted,
\* the call fails with the abort error, r is in invalidNodeIds and not in
\* incompleteNodeIds, and the targets of r's subrequest edges are the ids
\* that invocation passed to api.runRequest.
C23_AbortedRunIsRejected ==
  last.op = "settle" =>
    \A i \in DOMAIN last.settled :
      (last.settled[i].body = "ok" /\ last.settled[i].aborted) =>
        /\ last.settled[i].outcome = "err"
        /\ last.settled[i].value = "AbortError"
        /\ last.settled[i].id \in graph.invalidNodeIds
        /\ last.settled[i].id \notin graph.incompleteNodeIds
        /\ {e[2] : e \in {x \in graph.edges :
                            x[1] = last.settled[i].id /\ x[3] = "subrequest"}}
             = last.settled[i].subRequests

\* C25: once a runRequest(r) has returned the value of r's body, that value
\* is the result stored on r's node, which is what a memoized runRequest(r)
\* returns.
C25_ReturnedValueIsStored ==
  last.op = "settle" =>
    \A i \in DOMAIN last.settled :
      last.settled[i].outcome = "ok" =>
        /\ last.settled[i].id \in DOMAIN graph.nodes
        /\ getRequestResult(graph, last.settled[i].id) = last.settled[i].value

(***************************************************************************)
(* Properties of invalidateNode                                            *)
(***************************************************************************)

\* C26: invalidateNode(r) for a request of the graph leaves in invalidNodeIds
\* the ids that were in it, r, and every request from which r is reachable
\* along subrequest edges, and no other id.
C26_InvalidatesTheAncestors ==
  [][last'.op = "invalidateNode" =>
       /\ ~last'.threw
       /\ graph'.invalidNodeIds =
            graph.invalidNodeIds \cup Ancestors(graph, last'.id)]_vars

\* invalidateNode(R3) has just been called on the chain R1 -> R2 -> R3 in
\* which no request was invalid
C26_Witness ==
  /\ last.op = "invalidateNode"
  /\ last.id = R3
  /\ last.invalidBefore = {}
  /\ graph.edges = {<<R1, R2, "subrequest">>, <<R2, R3, "subrequest">>}
  /\ graph.invalidNodeIds = {R1, R2, R3}

\* C27: invalidateNode ends without an error on every graph that runRequest
\* produces, whatever requests the bodies ran as subrequests.
C27_InvalidateNodeTerminates ==
  last.op = "invalidateNode" => ~last.threw

(***************************************************************************)
(* Properties of the ExtensionlessFile nodes                               *)
(***************************************************************************)

\* C28: an invalidateOnFileCreate(r, {filePath: P, extensions: S}) called
\* while the ExtensionlessFile node of P exists with extensions T leaves the
\* node with the extensions T union S, and leaves r with an
\* invalidated_by_create edge to it.
C28_ExtensionsAreUnited ==
  [][LET input == last'.decl.input
         id == extensionlessFileNodeId(input.filePath)
     IN ( /\ last'.op = "invalidateOn"
          /\ ~last'.threw
          /\ last'.decl.api = "invalidateOnFileCreate"
          /\ input.fields = {"filePath", "extensions"}
          /\ hasNode(graph, id) )
        => /\ hasNode(graph', id)
           /\ getNode(graph', id).value.extensions
                = getNode(graph, id).value.extensions \cup input.extensions
           /\ hasEdge(graph', last'.id, id, "invalidated_by_create")]_vars

\* R2 has just declared /a/b/i with the extension .ts while the node, which
\* R1 created with .js, exists: the node has both and both requests have an
\* edge to it
C28_Witness ==
  /\ last.op = "invalidateOn"
  /\ last.id = R2
  /\ last.decl = OnFileCreate(ExtensionsInput(PS, {<<".ts">>}))
  /\ hasNode(graph, extensionlessFileNodeId(PS))
  /\ getNode(graph, extensionlessFileNodeId(PS)).value.extensions
       = {<<".js">>, <<".ts">>}
  /\ hasEdge(graph, R1, extensionlessFileNodeId(PS), "invalidated_by_create")
  /\ hasEdge(graph, R2, extensionlessFileNodeId(PS), "invalidated_by_create")

(***************************************************************************)
(* Properties of overlapping runs of one request                           *)
(***************************************************************************)

\* C29: when a runRequest(r) completes, r has the invalidated_by_update edge
\* of every invalidateOnFileUpdate that the invocation made through its api.
C29_DeclaredEdgesSurviveTheRun ==
  last.op = "settle" =>
    \A i \in DOMAIN last.settled :
      last.settled[i].outcome = "ok" =>
        \A d \in last.settled[i].made :
          d.api = "invalidateOnFileUpdate" =>
            hasEdge(graph, last.settled[i].id, d.filePath,
                    "invalidated_by_update")

\* C30: a request whose node is in the graph is in incompleteNodeIds exactly
\* when an invocation of runRequest for it has started its body and has not
\* settled, and hasValidResult is false for it all that time.
C30_IncompleteWhileRunning ==
  \A r \in Requests :
    LET running == \E s \in Slots : runs[s].active /\ runs[s].id = r
    IN hasNode(graph, r) =>
         /\ r \in graph.incompleteNodeIds <=> running
         /\ running => ~hasValidResult(graph, r)

(***************************************************************************)
(* C31: when the subrequest edges of a request change                      *)
(***************************************************************************)
\* an invocation of request P is suspended in its body
Running(rs, P) == \E s \in Slots : rs[s].active /\ rs[s].id = P

SubrequestsOf(g, P) == getNodesConnectedFrom(g, P, "subrequest")

\* C31 as stated: in every step that leaves a run of P executing its body,
\* P's subrequest out-edges stay the ones it had.
C31_EdgesFixedWhileRunning ==
  [][\A P \in Requests :
       Running(runs, P) /\ Running(runs', P)
         => SubrequestsOf(graph', P) = SubrequestsOf(graph, P)]_vars

\* C31: no call on a request's API handle, no start of a run and no event
\* batch changes any request's subrequest out-edges; they change only in the
\* step that settles an invocation of the request, which replaces them at
\* once with the set that invocation collected (and leaves them alone when
\* the finally block throws), and in removeRequest, which drops the edges
\* that touch the removed node.
C31_EdgesChangeOnlyAtSettle ==
  [][\A P \in Requests :
       LET before == SubrequestsOf(graph, P)
           after == SubrequestsOf(graph', P)
       IN CASE last'.op = "settle" ->
                 LET mine == {i \in 1..Len(last'.settled) :
                                last'.settled[i].id = P}
                 IN IF mine = {} THEN after = before
                    ELSE \A i \in mine :
                           IF last'.settled[i].value = "NullthrowsError"
                           THEN after = before
                           ELSE after = last'.settled[i].subRequests
            [] last'.op = "removeRequest" ->
                 after = IF last'.id = P THEN {} ELSE before \ {last'.id}
            [] OTHER -> after = before]_vars

\* a run of R1 has started its body while R1 still has the edge to R2 of its
\* previous run, and has collected nothing yet
C31_Witness ==
  /\ last.op = "runRequest" /\ last.id = R1 /\ last.executed
  /\ SubrequestsOf(graph, R1) = {R2}
  /\ \E s \in Slots : runs[s].active /\ runs[s].id = R1 /\ runs[s].subRequests = {}

(***************************************************************************)
(* C32: a variable that is unset at the declaration and at the re-check    *)
(***************************************************************************)
\* C32: when request r is not in invalidNodeIds and every
\* invalidateOnEnvChange(n) of its last run was declared while n was unset in
\* options.env, invalidateEnvNodes(env) with every such n still unset in env
\* leaves r out of invalidNodeIds.
C32_UnsetEnvInvalidatesNothing ==
  [][\A r \in Requests :
       ( /\ last'.op = "invalidateEnvNodes"
         /\ r \notin graph.invalidNodeIds
         /\ \E d \in declared[r] : d.api = "invalidateOnEnvChange"
         /\ \A d \in declared[r] :
              /\ d.api = "invalidateOnEnvChange"
              /\ d.value = Undefined
              /\ last'.options.env[d.name] = Undefined )
       => r \notin graph'.invalidNodeIds]_vars

(***************************************************************************)
(* C33: a create event at a path without extension                         *)
(***************************************************************************)
\* C33: for a create event at a path p without extension the responder's
\* stem, p.slice(0, -extname(p).length), is p itself, and a request r that
\* declared invalidateOnFileCreate({filePath: p, extensions: S}) in its last
\* run, with the empty extension in S, is in invalidNodeIds after the batch.
C33_EmptyExtensionCreateInvalidates ==
  [][\A r \in Requests : \A d \in declared[r] :
       \A i \in DOMAIN last'.events :
         LET path == last'.events[i].path IN
         ( /\ last'.op = "respondToFSEvents"
           /\ last'.events[i].type = "create"
           /\ extname(path) = <<>>
           /\ d.api = "invalidateOnFileCreate"
           /\ d.input.fields = {"filePath", "extensions"}
           /\ d.input.filePath = path
           /\ <<>> \in d.input.extensions )
         => /\ slice0(path, 0 - Len(extname(path))) = path
            /\ r \in graph'.invalidNodeIds]_vars

(***************************************************************************)
(* One string declared as a file path and as a glob, with Env and Option   *)
(* declarations beside them                                                *)
(***************************************************************************)
KindDecls ==
  {OnFileUpdate(PJ), OnFileDelete(PJ), OnFileCreate(GlobInput(PJ)),
   OnFileCreate(GlobInput(GJ)), OnEnvChange(NODE_ENV), OnOptionChange(MINIFY)}
KindEvents == {Ev(PJ, "create"), Ev(PJ, "update"), Ev(PJ, "delete")}
SpecKinds ==
  Init /\ [][NextWith(KindDecls, KindEvents)
              \/ RemoveRequest
              \/ Restart({DefaultOptions})]_vars

NodeIdsOfType(g, type) == {id \in DOMAIN g.nodes : g.nodes[id].type = type}

(***************************************************************************)
(* C34: the indexes of the Glob, Env and Option nodes                      *)
(***************************************************************************)
\* C34: in every reachable state globNodeIds, envNodeIds and optionNodeIds
\* are exactly the sets of the ids of the graph's nodes of type glob, env and
\* option.
C34_IndexesAreTheNodesOfTheKind ==
  /\ graph.globNodeIds = NodeIdsOfType(graph, "glob")
  /\ graph.envNodeIds = NodeIdsOfType(graph, "env")
  /\ graph.optionNodeIds = NodeIdsOfType(graph, "option")

\* Glob, Env and Option nodes are in the graph, beside a File node, and a
\* request has been removed
C34_Witness ==
  /\ last.op = "removeRequest"
  /\ GJ \in graph.globNodeIds
  /\ graph.envNodeIds # {}
  /\ graph.optionNodeIds # {}
  /\ NodeIdsOfType(graph, "file") # {}

(***************************************************************************)
(* C35: the responder invalidates only on an event that matches            *)
(***************************************************************************)
MatchDecls ==
  {OnFileUpdate(PJ), OnFileDelete(PJ), OnFileCreate(GlobInput(GJ)),
   OnFileCreate(ExtensionsInput(PS, {<<".js">>})),
   OnFileCreate(ExtensionsInput(PS, {<<".ts">>})),
   OnFileCreate(FileNameInput(NJ, PA))}
MatchEvents ==
  {Ev(PJ, "create"), Ev(PX, "create"), Ev(PT, "create"), Ev(PJ, "update"),
   Ev(PJ, "delete"), Ev(PX, "delete")}
SpecMatch == Init /\ [][NextWith(MatchDecls, MatchEvents)]_vars

\* the event is one the declaration d names
DeclaredMatch(event, d) ==
  LET path == event.path IN
  CASE d.api = "invalidateOnFileUpdate" ->
         event.type \in {"create", "update"} /\ path = d.filePath
    [] d.api = "invalidateOnFileDelete" ->
         event.type = "delete" /\ path = d.filePath
    [] d.api = "invalidateOnFileCreate" /\ "glob" \in d.input.fields ->
         event.type = "create" /\ isGlobMatch(path, d.input.glob)
    [] d.api = "invalidateOnFileCreate" /\ "extensions" \in d.input.fields ->
         /\ event.type = "create"
         /\ \E e \in d.input.extensions : path = d.input.filePath \o e
    [] d.api = "invalidateOnFileCreate" /\ "fileName" \in d.input.fields ->
         LET n == Len(path) - Len(d.input.fileName) IN
         /\ event.type = "create"
         /\ n >= 1
         /\ SubSeq(path, n + 1, Len(path)) = d.input.fileName
         /\ path[n] = SEP
         /\ isDirectoryInside(d.input.aboveFilePath, dirname(path))
    [] OTHER -> FALSE

\* the event hits the node that d put an edge to: for the two shared kinds of
\* node, with an extension or a file name that any request gave the node
NodeMatch(g, event, d) ==
  LET path == event.path IN
  CASE d.api = "invalidateOnFileCreate" /\ "glob" \notin d.input.fields
         /\ "extensions" \in d.input.fields ->
         LET efId == extensionlessFileNodeId(d.input.filePath) IN
         /\ event.type = "create"
         /\ hasNode(g, efId)
         /\ \E e \in getNode(g, efId).value.extensions :
              path = d.input.filePath \o e
    [] d.api = "invalidateOnFileCreate" /\ "glob" \notin d.input.fields
         /\ "extensions" \notin d.input.fields
         /\ "fileName" \in d.input.fields ->
         /\ event.type = "create"
         /\ hasEdge(g, d.input.aboveFilePath,
                    <<"file_name:">> \o basename(path),
                    "invalidated_by_create_above")
         /\ isDirectoryInside(d.input.aboveFilePath, dirname(path))
    [] OTHER -> DeclaredMatch(event, d)

\* the requests reachable from r along subrequest edges, r among them
ReachableFrom(g, r) == {q \in Requests : r \in Ancestors(g, q)}

\* C35 as stated: a request that a batch adds to invalidNodeIds, or a
\* request reachable from it along subrequest edges, declared in its last
\* run a dependency that an event of the batch matches; and a batch of
\* events at paths without node that match no declaration leaves the graph
\* as it is.
C35_OnlyDeclaredMatchesInvalidate ==
  [][last'.op = "respondToFSEvents" =>
       /\ \A r \in graph'.invalidNodeIds \ graph.invalidNodeIds :
            \E q \in ReachableFrom(graph, r) : \E d \in declared[q] :
              \E i \in DOMAIN last'.events : DeclaredMatch(last'.events[i], d)
       /\ ( \A i \in DOMAIN last'.events :
              /\ ~hasNode(graph, last'.events[i].path)
              /\ \A q \in Requests : \A d \in declared[q] :
                   ~DeclaredMatch(last'.events[i], d) )
          => graph' = graph]_vars

\* C35: a request that a batch adds to invalidNodeIds, or a request
\* reachable from it along subrequest edges, has from its last run a
\* dependency whose node an event of the batch hits: the File node of an
\* updated, created or deleted path, a Glob node matching a created path, the
\* ExtensionlessFile node of a created path whose extension any request
\* declared for it, or the File node above which any request declared the
\* created file's name; and a batch none of whose events hits the node of a
\* declaration leaves the graph as it is.
C35_OnlyNodeMatchesInvalidate ==
  [][last'.op = "respondToFSEvents" =>
       /\ \A r \in graph'.invalidNodeIds \ graph.invalidNodeIds :
            \E q \in ReachableFrom(graph, r) : \E d \in declared[q] :
              \E i \in DOMAIN last'.events :
                NodeMatch(graph, last'.events[i], d)
       /\ ( \A i \in DOMAIN last'.events :
              \A q \in Requests : \A d \in declared[q] :
                ~NodeMatch(graph, last'.events[i], d) )
          => graph' = graph]_vars

\* R1, which declared the extension .js only, has become invalid by the
\* create event at /a/b/i.ts
C35_Witness ==
  /\ last.op = "respondToFSEvents"
  /\ last.events = <<Ev(PT, "create")>>
  /\ declared[R1] = {Captured(OnFileCreate(ExtensionsInput(PS, {<<".js">>})),
                              DefaultOptions)}
  /\ R1 \in graph.invalidNodeIds \ last.invalidBefore

(***************************************************************************)
(* C36: an invalidation that arrives while the body is suspended           *)
(***************************************************************************)
\* C36: when the only invocation of request r is suspended in its body, a
\* batch with an event matching a dependency that this invocation has
\* declared has just been processed, and the body then returns and the run
\* completes successfully, hasValidResult(r) is false after the run.
C36_InvalidationSurvivesTheRun ==
  [][\A r \in Requests : \A f \in Slots :
       ( /\ runs[f].active /\ runs[f].id = r
         /\ \A s \in Slots \ {f} : ~(runs[s].active /\ runs[s].id = r)
         /\ last.op = "respondToFSEvents"
         /\ \E d \in runs[f].made \cap declared[r] :
              \E i \in DOMAIN last.events : DeclaredMatch(last.events[i], d)
         /\ last'.op = "settle"
         /\ ~runs'[f].active
         /\ last'.settled[1].id = r
         /\ last'.settled[1].outcome = "ok" )
       => ~hasValidResult(graph', r)]_vars

(***************************************************************************)
(* C37: what the responder changes, and the order of the events            *)
(***************************************************************************)
MaxOrderBatch == 2   \* events of one batch where their order is compared

OrderDecls ==
  {OnFileUpdate(PJ), OnFileDelete(PJ), OnFileCreate(GlobInput(GJ))}
OrderEvents ==
  {Ev(PJ, "update"), Ev(PJ, "delete"), Ev(PJ, "create"), Ev(PX, "create")}
SpecOrder ==
  Init /\ [][NextBuild(OrderDecls)
              \/ RespondToFSEventsUpTo(OrderEvents, MaxOrderBatch)]_vars

\* C37: respondToFSEvents leaves the nodes with their values, the edges and
\* the five other index sets as they are and takes no id out of
\* invalidNodeIds; and the events of the batch taken in any other order give
\* the same invalidNodeIds.
C37_OnlyAddsToInvalid ==
  [][last'.op = "respondToFSEvents" =>
       /\ graph' = [graph EXCEPT !.invalidNodeIds = graph'.invalidNodeIds]
       /\ graph.invalidNodeIds \subseteq graph'.invalidNodeIds
       /\ \A p \in Permutations(DOMAIN last'.events) :
            respondToFSEvents(graph,
              [i \in DOMAIN last'.events |-> last'.events[p[i]]]).g.invalidNodeIds
              = graph'.invalidNodeIds]_vars

\* a batch of two different events, each invalidating another request
C37_Witness ==
  /\ last.op = "respondToFSEvents"
  /\ last.events = <<Ev(PJ, "update"), Ev(PJ, "delete")>>
  /\ declared[R1] = {Captured(OnFileUpdate(PJ), DefaultOptions)}
  /\ declared[R2] = {Captured(OnFileDelete(PJ), DefaultOptions)}
  /\ graph.invalidNodeIds \ last.invalidBefore = {R1, R2}

(***************************************************************************)
(* C38: one string as a file path and as a glob                            *)
(***************************************************************************)
\* the strings some request declared as a file path, and as a glob, in its
\* last run
DeclaredFilePaths ==
  {d.filePath : d \in {x \in UNION {declared[r] : r \in Requests} :
     x.api \in {"invalidateOnFileUpdate", "invalidateOnFileDelete"}}}
DeclaredGlobs ==
  {d.input.glob : d \in {x \in UNION {declared[r] : r \in Requests} :
     x.api = "invalidateOnFileCreate" /\ "glob" \in x.input.fields}}

\* C38: after every step, for a string s declared both as a file path and as
\* a glob, the graph holds a File node of path s and a Glob node of pattern
\* s, the latter in globNodeIds; and a batch with an event that matches a
\* request's invalidateOnFileUpdate(s), invalidateOnFileDelete(s) or
\* invalidateOnFileCreate({glob: s}) leaves that request in invalidNodeIds.
C38_KindsNeverAlias ==
  [][\A s \in DeclaredFilePaths' \cap DeclaredGlobs' :
       /\ \E id \in DOMAIN graph'.nodes :
            graph'.nodes[id].type = "file" /\ graph'.nodes[id].value.filePath = s
       /\ \E id \in graph'.globNodeIds :
            /\ id \in DOMAIN graph'.nodes
            /\ graph'.nodes[id].type = "glob"
            /\ graph'.nodes[id].value.glob = s
       /\ last'.op = "respondToFSEvents" =>
            \A r \in Requests : \A d \in declared[r] :
              \A i \in DOMAIN last'.events :
                ( /\ \/ d.api \in {"invalidateOnFileUpdate",
                                   "invalidateOnFileDelete"} /\ d.filePath = s
                     \/ /\ d.api = "invalidateOnFileCreate"
                        /\ d.input.fields = {"glob"}
                        /\ d.input.glob = s
                  /\ DeclaredMatch(last'.events[i], d) )
                => r \in graph'.invalidNodeIds]_vars

(***************************************************************************)
(* C39: a valid parent and its subrequests                                 *)
(***************************************************************************)
\* C39: in every reachable state with no body in progress, a request P with
\* hasValidResult(P) has subrequest edges only to requests C with
\* hasValidResult(C).
C39_ValidParentHasValidSubrequests ==
  (\A s \in Slots : ~runs[s].active) =>
    \A P \in Requests : \A C \in SubrequestsOf(graph, P) :
      hasValidResult(graph, P) => hasValidResult(graph, C)

\* request P has a valid result and a subrequest edge to C, which has none
ValidOverInvalid(g, P, C) ==
  /\ hasValidResult(g, P)
  /\ C \in SubrequestsOf(g, P)
  /\ ~hasValidResult(g, C)

\* C39: no invalidation, event batch, removal, restart or start of a run
\* leaves a request P with a valid result over a subrequest C without one
\* that was not so before; such a pair arises only in the step in which a
\* run of P is completed while C is invalid or incomplete, or a run of C is
\* rejected while P has a valid result.
C39_OnlyACompletedRunOutlivesItsSubrequest ==
  [][\A P \in Requests : \A C \in Requests :
       ( ValidOverInvalid(graph', P, C) /\ ~ValidOverInvalid(graph, P, C) )
       => /\ last'.op = "settle"
          /\ \E i \in DOMAIN last'.settled :
               \/ /\ last'.settled[i].id = P
                  /\ last'.settled[i].path = "ok"
               \/ /\ last'.settled[i].id = C
                  /\ last'.settled[i].path = "err"]_vars

\* no body is in progress, the run of R1 has completed and R1 has a valid
\* result and the subrequest R2, whose run was rejected
C39_Witness ==
  /\ \A s \in Slots : ~runs[s].active
  /\ last.op = "settle" /\ last.id = R1
  /\ ValidOverInvalid(graph, R1, R2)
  /\ R2 \in graph.invalidNodeIds

(***************************************************************************)
(* C40: the run of a request whose node was removed                        *)
(***************************************************************************)
\* C40: when runRequest(r) settles and r's node is not in the graph, removed
\* while the body was executing, the call returns the body's value if the
\* body returned (the signal not aborted) and fails with the body's error if
\* the body failed, and r is in none of the index sets.
C40_RemovedRequestSettlesAsItsBody ==
  last.op = "settle" =>
    \A i \in DOMAIN last.settled :
      LET run == last.settled[i] IN
      run.id \notin DOMAIN graph.nodes =>
        /\ (run.body = "ok" /\ ~run.aborted) =>
             (run.outcome = "ok" /\ run.value = run.bodyValue)
        /\ run.body = "err" =>
             (run.outcome = "err" /\ run.value = run.bodyValue)
        /\ run.id \notin graph.invalidNodeIds \cup graph.incompleteNodeIds
             \cup graph.globNodeIds \cup graph.envNodeIds
             \cup graph.optionNodeIds
        /\ \A k \in DOMAIN graph.unpredicatableNodeIds :
             graph.unpredicatableNodeIds[k] # run.id
====
